---- MODULE Spec2Model ----
(***************************************************************************)
(* Verification model of 0BullshitIntelligence.                            *)
(*                                                                         *)
(* Part 1  Delivery fan-out: app/api/websockets/manager.py                 *)
(*         (WebSocketManager) and the socket endpoint of app/api/app.py.   *)
(* Part 2  Investor search: app/ai_systems/search_investors.py,            *)
(*         app/search/investor_search.py, app/database/manager.py and the  *)
(*         callers in app/api/routers/search.py and                        *)
(*         app/services/chat_service.py.                                   *)
(* Part 3  Profile merger: app/ai_systems/librarian.py with the pydantic   *)
(*         models of app/models/user.py and app/models/base.py.            *)
(* Part 4  The stage-weight functions of Part 2 applied on their own.      *)
(* Part 5  One chat turn: the handlers of an inbound message in            *)
(*         app/api/websockets/manager.py, app/api/routers/chat.py and      *)
(*         app/services/chat_service.py, with the intent classifier of     *)
(*         app/ai_systems/judge_system.py.                                 *)
(* Part 6  _combine_results of Part 2 applied on its own.                  *)
(*                                                                         *)
(* The program runs on one cooperative event loop.  A coroutine runs       *)
(* without interruption from one await to the next, so every action below  *)
(* is "the pending await completes and the coroutine runs to its next      *)
(* await".                                                                 *)
(***************************************************************************)
EXTENDS Integers, Sequences, FiniteSets, TLC

\* ------------------------------------------------------------------ bounds
MaxPublish == 3      \* calls of broadcast_to_conversation in one behaviour
MaxShutdownPublish == 2   \* the same, in the behaviours with the shutdown

\* ------------------------------------------------------- program constants
max_queue_size == 100

Sockets == {1, 2}     \* WebSocket objects that may ever connect
Tasks == {1, 2}       \* coroutines that publish (each awaits its broadcasts in turn)
Convs == {"c1", "c2"}
NoSocket == 0

VARIABLES
    active_connections,   \* WebSocketManager.active_connections: conv -> set of sockets
    connection_metadata,  \* WebSocketManager.connection_metadata: socket -> conversation_id
    message_queues,       \* WebSocketManager.message_queues: conv -> list of events
    sock,                 \* per WebSocket: position of its endpoint/connect coroutine
    wsUp,                 \* per WebSocket: the transport still carries sends
    bc,                   \* per publishing task: position inside broadcast_to_conversation
    nextEv,               \* number of events passed to broadcast_to_conversation so far
    budget,               \* publishes left in this behaviour
    delivered,            \* history: per WebSocket, what send_text has sent, in order
    observe,              \* whether this behaviour keeps the history `delivered`
    shut,                 \* the position of disconnect_all (application shutdown)
    \* Part 2
    project,              \* the session's project_data dictionary
    db,                   \* the candidate store: the rows of its tables
    srch,                 \* the investor search in flight
    gate,                 \* what can_search_investors last returned
    \* Part 3
    profile,              \* current_project_data, the ProjectData object (or None)
    mergeOut,             \* what process_conversation_update last returned
    hist,                 \* history: what the extractions have supplied so far
    \* Part 4
    stageCall,            \* the arguments the stage-weight functions are called with
    stageRet,             \* what the stage-weight functions returned
    \* Part 5
    turn,                 \* the chat message being handled and the steps run for it
    \* Part 6
    combineCall,          \* the arguments _combine_results is called with
    combineRet            \* what _combine_results returned

wsVars == <<active_connections, connection_metadata, message_queues, sock, wsUp, bc,
            nextEv, budget, delivered, observe, shut>>

searchVars == <<project, db, srch, gate>>

mergeVars == <<profile, mergeOut, hist>>

stageVars == <<stageCall, stageRet>>

turnVars == <<turn>>

combineVars == <<combineCall, combineRet>>

vars == <<wsVars, searchVars, mergeVars, stageVars, turnVars, combineVars>>

\* the variables of the other parts
notWS == <<searchVars, mergeVars, stageVars, turnVars, combineVars>>

notSearch == <<wsVars, mergeVars, stageVars, turnVars, combineVars>>

notMerge == <<wsVars, searchVars, stageVars, turnVars, combineVars>>

notStage == <<wsVars, searchVars, mergeVars, turnVars, combineVars>>

notTurn == <<wsVars, searchVars, mergeVars, stageVars, combineVars>>

notCombine == <<wsVars, searchVars, mergeVars, stageVars, turnVars>>


\* ------------------------------------------------------------ dictionaries
\* A Python dict is a function whose DOMAIN is the set of keys present.
EmptyDict == [x \in {} |-> 0]

Put(f, k, v) == [x \in DOMAIN f \cup {k} |-> IF x = k THEN v ELSE f[x]]

Drop(f, k) == [x \in DOMAIN f \ {k} |-> f[x]]

Range(seq) == {seq[i] : i \in 1..Len(seq)}

\* None (JSON null) where the value is otherwise a string
Null == "null"

\* A part that a specification leaves out stays as it is here.
NoSearch == project = "none" /\ db = "none" /\ srch = "none" /\ gate = "none"

NoMerge == profile = "none" /\ mergeOut = "none" /\ hist = "none"

NoStageCall == stageCall = "none" /\ stageRet = "none"

NoTurn == turn = "none"

NoCombine == combineCall = "none" /\ combineRet = "none"

NoFanout ==
    /\ active_connections = EmptyDict
    /\ connection_metadata = EmptyDict
    /\ message_queues = EmptyDict
    /\ sock = "none" /\ wsUp = "none" /\ bc = "none"
    /\ nextEv = 0 /\ budget = 0
    /\ delivered = "none" /\ observe = FALSE /\ shut = "none"

\* ----------------------------------------------------- WebSocketManager
\* A disconnect that leaves the emptied room in place (not what the code does).
DisconnectConnections_KeepEmpty(ac, s, c) ==
    IF c \in DOMAIN ac THEN [ac EXCEPT ![c] = ac[c] \ {s}] ELSE ac

\* disconnect(): the dictionary updates it makes before it awaits close().
DisconnectConnections(ac, s, c) ==
    IF c \in DOMAIN ac
    THEN IF ac[c] \ {s} = {} THEN Drop(ac, c) ELSE [ac EXCEPT ![c] = ac[c] \ {s}]
    ELSE ac

DisconnectMetadata(md, s) == Drop(md, s)

\* _queue_message(): the list after append, before the size limit is applied.
QueueAppended(mq, c, ev) == Append(IF c \in DOMAIN mq THEN mq[c] ELSE <<>>, ev)

\* A slice that keeps the oldest elements: [:max_queue_size] (not what the code does).
LimitQueue_KeepOldest(q) ==
    IF Len(q) > max_queue_size THEN SubSeq(q, 1, max_queue_size) ELSE q

\* the [-max_queue_size:] slice
LimitQueue(q) ==
    IF Len(q) > max_queue_size
    THEN SubSeq(q, Len(q) - max_queue_size + 1, Len(q))
    ELSE q

QueueMessage(mq, c, ev) == Put(mq, c, LimitQueue(QueueAppended(mq, c, ev)))

\* _queue_message() rebinds message_queues[c] to a new list object only when it slices.
QueueRebinds(mq, c, ev) == Len(QueueAppended(mq, c, ev)) > max_queue_size

\* _send_to_websocket(): send_text succeeds on a live transport and raises on a dead
\* one; every exception is caught and turned into False.  The text enters the
\* socket's stream when send_text is called, so what a socket receives is ordered by
\* the calls; the caller is suspended until the send completes.
SendOk(up, s) == up[s]

\* what the socket has received after send_text(kind, ev) was called on it
Sent(dl, up, s, kind, ev) ==
    IF observe /\ SendOk(up, s) THEN [dl EXCEPT ![s] = Append(@, <<kind, ev>>)] ELSE dl

\* The list object a replaying socket iterates.  It is message_queues[conv] itself
\* (live) until that key is rebound to a new list; from then on it is the old
\* object, which nobody appends to any more (items).
ItemsOf(s) == IF sock[s].live THEN message_queues[sock[s].conv] ELSE sock[s].items

\* message_queues[c] is rebound: every other iterator over the old object keeps it.
FreezeOthers(sk, me, c, old) ==
    [s \in Sockets |->
        IF s # me /\ sk[s].pc = "replaying" /\ sk[s].conv = c /\ sk[s].live
        THEN [sk[s] EXCEPT !.live = FALSE, !.items = old]
        ELSE sk[s]]

IdleSock == [pc |-> "new", conv |-> "c1", idx |-> 0, live |-> FALSE, items |-> <<>>]

\* failed: the sockets of this broadcast whose send returned False (history)
IdleTask == [pc |-> "idle", conv |-> "c1", ev |-> 0, connections |-> {}, todo |-> {},
             cur |-> NoSocket, curOk |-> FALSE, disconnected |-> <<>>, attempted |-> {},
             k |-> 0, failed |-> {}]

\* disconnect_all has not been called
IdleShut == [pc |-> "idle", conv |-> "", socks |-> {}, convs |-> {}]

InitManager ==
    /\ active_connections = EmptyDict
    /\ connection_metadata = EmptyDict
    /\ message_queues = EmptyDict
    /\ sock = [s \in Sockets |-> IdleSock]
    /\ wsUp = [s \in Sockets |-> TRUE]
    /\ bc = [t \in Tasks |-> IdleTask]
    /\ nextEv = 0
    /\ budget = MaxPublish
    /\ delivered = [s \in Sockets |-> <<>>]
    /\ shut = IdleShut

\* chat_websocket_endpoint calls connect(): it awaits websocket.accept().  WebSocket
\* objects are numbered in the order in which their endpoints start.
ConnectBegin(s, c) ==
    /\ sock[s].pc = "new"
    /\ \A u \in Sockets : u < s => sock[u].pc # "new"
    /\ sock' = [sock EXCEPT ![s] = [IdleSock EXCEPT !.pc = "accepting", !.conv = c]]
    /\ UNCHANGED <<active_connections, connection_metadata, message_queues, wsUp, bc,
                   nextEv, budget, delivered>>
    /\ UNCHANGED <<observe, shut, notWS>>

\* accept() returns: connect() registers the socket and calls
\* _send_queued_messages(), which sends the first queued message; with nothing queued
\* connect() sends connection_established.
AcceptOk(s) ==
    LET c == sock[s].conv
        cur == IF c \in DOMAIN active_connections THEN active_connections[c] ELSE {}
        hasQueue == c \in DOMAIN message_queues /\ message_queues[c] # <<>>
    IN
    /\ sock[s].pc = "accepting"
    /\ wsUp[s]
    /\ active_connections' = Put(active_connections, c, cur \cup {s})
    /\ connection_metadata' = Put(connection_metadata, s, c)
    /\ IF hasQueue
       THEN /\ sock' = [sock EXCEPT ![s] =
                          [@ EXCEPT !.pc = "replaying", !.idx = 1, !.live = TRUE]]
            /\ delivered' = Sent(delivered, wsUp, s, "replay", message_queues[c][1])
       ELSE /\ sock' = [sock EXCEPT ![s].pc = "confirming"]
            /\ delivered' = Sent(delivered, wsUp, s, "confirm", 0)
    /\ UNCHANGED <<message_queues, wsUp, bc, nextEv, budget>>
    /\ UNCHANGED <<observe, shut, notWS>>

\* accept() raises: the except branch of connect() calls disconnect() and awaits close().
AcceptFail(s) ==
    LET c == sock[s].conv IN
    /\ sock[s].pc = "accepting"
    /\ ~wsUp[s]
    /\ active_connections' = DisconnectConnections(active_connections, s, c)
    /\ connection_metadata' = DisconnectMetadata(connection_metadata, s)
    /\ sock' = [sock EXCEPT ![s].pc = "failed"]
    /\ UNCHANGED <<message_queues, wsUp, bc, nextEv, budget, delivered>>
    /\ UNCHANGED <<observe, shut, notWS>>

\* _send_queued_messages(): the send of queued message idx has completed (its result
\* is ignored).  The loop sends the next message of the list object it iterates; after
\* the last one it clears the queue and connect() sends connection_established.
ReplaySend(s) ==
    LET c == sock[s].conv
        items == ItemsOf(s)
        more == sock[s].idx < Len(items)
    IN
    /\ sock[s].pc = "replaying"
    /\ IF more
       THEN /\ sock' = [sock EXCEPT ![s].idx = @ + 1]
            /\ delivered' = Sent(delivered, wsUp, s, "replay", items[sock[s].idx + 1])
            /\ UNCHANGED message_queues
       ELSE /\ message_queues' = [message_queues EXCEPT ![c] = <<>>]
            /\ sock' = [FreezeOthers(sock, s, c, message_queues[c]) EXCEPT ![s] =
                          [sock[s] EXCEPT !.pc = "confirming", !.idx = 0,
                                          !.live = FALSE, !.items = <<>>]]
            /\ delivered' = Sent(delivered, wsUp, s, "confirm", 0)
    /\ UNCHANGED <<active_connections, connection_metadata, wsUp, bc, nextEv, budget>>
    /\ UNCHANGED <<observe, shut, notWS>>

\* connect(): the send of connection_established has completed; connect() returns and
\* the endpoint waits in receive_json().
ConfirmSend(s) ==
    /\ sock[s].pc = "confirming"
    /\ sock' = [sock EXCEPT ![s].pc = "open"]
    /\ UNCHANGED <<active_connections, connection_metadata, message_queues, wsUp, bc,
                   nextEv, budget, delivered>>
    /\ UNCHANGED <<observe, shut, notWS>>

\* chat_websocket_endpoint: receive_json() raises (the peer is gone, or the socket was
\* never accepted) and the handler calls disconnect().
EndpointDisconnect(s) ==
    LET c == sock[s].conv IN
    /\ \/ sock[s].pc = "open" /\ ~wsUp[s]
       \/ sock[s].pc = "failed"
    /\ active_connections' = DisconnectConnections(active_connections, s, c)
    /\ connection_metadata' = DisconnectMetadata(connection_metadata, s)
    /\ sock' = [sock EXCEPT ![s].pc = "closed"]
    /\ UNCHANGED <<message_queues, wsUp, bc, nextEv, budget, delivered>>
    /\ UNCHANGED <<observe, shut, notWS>>

\* The client goes away, or the transport breaks.
PeerClose(s) ==
    /\ sock[s].pc \in {"accepting", "replaying", "confirming", "open"}
    /\ wsUp[s]
    /\ wsUp' = [wsUp EXCEPT ![s] = FALSE]
    /\ UNCHANGED <<active_connections, connection_metadata, message_queues, sock, bc,
                   nextEv, budget, delivered>>
    /\ UNCHANGED <<observe, shut, notWS>>

\* The order in which the send loop visits the copied set: the iteration order of a
\* Python set is not specified, so any socket not yet visited may come next.
NextInLoop(todo) == todo

\* broadcast_to_conversation(c, message) up to its first await: with no subscriber
\* the message is queued and the call returns; otherwise the subscriber set is copied
\* and the message is sent to the first socket of the copy.  A publisher takes the
\* first task slot that is free.
BroadcastStart(t, c) ==
    LET ev == nextEv + 1
        start == [IdleTask EXCEPT !.conv = c, !.ev = ev]
    IN
    /\ bc[t].pc = "idle"
    /\ \A u \in Tasks : u < t => bc[u].pc # "idle"
    /\ budget > 0
    /\ budget' = budget - 1
    /\ nextEv' = ev
    /\ IF c \notin DOMAIN active_connections \/ active_connections[c] = {}
       THEN /\ message_queues' = QueueMessage(message_queues, c, ev)
            /\ sock' = IF QueueRebinds(message_queues, c, ev)
                       THEN FreezeOthers(sock, NoSocket, c, QueueAppended(message_queues, c, ev))
                       ELSE sock
            /\ bc' = [bc EXCEPT ![t] = IdleTask]
            /\ UNCHANGED delivered
       ELSE /\ \E first \in NextInLoop(active_connections[c]) :
                 /\ bc' = [bc EXCEPT ![t] =
                             [start EXCEPT !.pc = "sending",
                                           !.connections = active_connections[c],
                                           !.todo = active_connections[c] \ {first},
                                           !.cur = first,
                                           !.curOk = SendOk(wsUp, first)]]
                 /\ delivered' = Sent(delivered, wsUp, first, "live", ev)
            /\ UNCHANGED <<message_queues, sock>>
    /\ UNCHANGED <<active_connections, connection_metadata, wsUp>>
    /\ UNCHANGED <<observe, shut, notWS>>

\* A send loop that forgets the sockets whose send failed (not what the code does).
AfterSend_ForgetFailed(b) ==
    [b EXCEPT !.attempted = @ \cup {b.cur}, !.cur = NoSocket]

\* The bookkeeping of the send loop once the send to b.cur has returned b.curOk
\* (attempted: the sockets of the copy the loop has been through).
AfterSend(b) ==
    [b EXCEPT !.attempted = @ \cup {b.cur},
              !.disconnected = IF b.curOk THEN @ ELSE Append(@, b.cur),
              !.cur = NoSocket]

\* broadcast_to_conversation: the pending send has completed.  The loop sends to the
\* next socket of the copy; after the last one the clean-up loop calls disconnect()
\* for the first failed socket (which awaits close()), or the call returns.
BroadcastSend(t) ==
    LET c == bc[t].conv
        b1 == [AfterSend(bc[t]) EXCEPT
                 !.failed = IF bc[t].curOk THEN @ ELSE @ \cup {bc[t].cur}]
    IN
    /\ bc[t].pc = "sending"
    /\ IF b1.todo # {}
       THEN /\ \E nxt \in NextInLoop(b1.todo) :
                 /\ bc' = [bc EXCEPT ![t] = [b1 EXCEPT !.cur = nxt, !.todo = @ \ {nxt},
                                                       !.curOk = SendOk(wsUp, nxt)]]
                 /\ delivered' = Sent(delivered, wsUp, nxt, "live", b1.ev)
            /\ UNCHANGED <<active_connections, connection_metadata>>
       ELSE IF b1.disconnected = <<>>
       THEN /\ bc' = [bc EXCEPT ![t] = IdleTask]
            /\ UNCHANGED <<active_connections, connection_metadata, delivered>>
       ELSE /\ bc' = [bc EXCEPT ![t] = [b1 EXCEPT !.pc = "cleanup", !.k = 1]]
            /\ active_connections' =
                   DisconnectConnections(active_connections, b1.disconnected[1], c)
            /\ connection_metadata' =
                   DisconnectMetadata(connection_metadata, b1.disconnected[1])
            /\ UNCHANGED delivered
    /\ UNCHANGED <<message_queues, sock, wsUp, nextEv, budget>>
    /\ UNCHANGED <<observe, shut, notWS>>

\* broadcast_to_conversation: the close() awaited by disconnect() number k has
\* completed; the clean-up loop disconnects the next failed socket, or the call returns.
BroadcastCleanup(t) ==
    LET b == bc[t]
        c == b.conv
    IN
    /\ b.pc = "cleanup"
    /\ IF b.k < Len(b.disconnected)
       THEN /\ bc' = [bc EXCEPT ![t].k = @ + 1]
            /\ active_connections' =
                   DisconnectConnections(active_connections, b.disconnected[b.k + 1], c)
            /\ connection_metadata' =
                   DisconnectMetadata(connection_metadata, b.disconnected[b.k + 1])
       ELSE /\ bc' = [bc EXCEPT ![t] = IdleTask]
            /\ UNCHANGED <<active_connections, connection_metadata>>
    /\ UNCHANGED <<message_queues, sock, wsUp, nextEv, budget, delivered>>
    /\ UNCHANGED <<observe, shut, notWS>>

NextWS ==
    \/ \E s \in Sockets, c \in Convs : ConnectBegin(s, c)
    \/ \E s \in Sockets : AcceptOk(s)
    \/ \E s \in Sockets : AcceptFail(s)
    \/ \E s \in Sockets : ReplaySend(s)
    \/ \E s \in Sockets : ConfirmSend(s)
    \/ \E s \in Sockets : EndpointDisconnect(s)
    \/ \E s \in Sockets : PeerClose(s)
    \/ \E t \in Tasks, c \in Convs : BroadcastStart(t, c)
    \/ \E t \in Tasks : BroadcastSend(t)
    \/ \E t \in Tasks : BroadcastCleanup(t)


\* The fan-out from start-up, with the history of what every socket received.
InitWS == InitManager /\ observe = TRUE /\ NoSearch /\ NoMerge /\ NoStageCall /\ NoTurn /\ NoCombine

SpecWS == InitWS /\ [][NextWS]_vars

\* The same fan-out without the history.
InitFanout == InitManager /\ observe = FALSE /\ NoSearch /\ NoMerge /\ NoStageCall /\ NoTurn /\ NoCombine

SpecFanout == InitFanout /\ [][NextWS]_vars

\* The fan-out after max_queue_size - 1 events were published to conversation "c1"
\* while it had no subscriber (socket 1 came and went before them); one WebSocket
\* is still to connect.
PrefilledLen == max_queue_size - 1

InitQueue ==
    /\ active_connections = EmptyDict
    /\ connection_metadata = EmptyDict
    /\ message_queues = [c \in {"c1"} |-> [i \in 1..PrefilledLen |-> i]]
    /\ sock = [s \in Sockets |-> IF s = 1 THEN [IdleSock EXCEPT !.pc = "closed"] ELSE IdleSock]
    /\ wsUp = [s \in Sockets |-> s # 1]
    /\ bc = [t \in Tasks |-> IdleTask]
    /\ nextEv = PrefilledLen
    /\ budget = MaxPublish
    /\ delivered = [s \in Sockets |-> <<>>]
    /\ observe = FALSE
    /\ shut = IdleShut
    /\ NoSearch /\ NoMerge /\ NoStageCall /\ NoTurn /\ NoCombine

SpecQueue == InitQueue /\ [][NextWS]_vars


\* The fan-out with the shutdown of the application (api/app.py), which calls
\* disconnect_all() while the endpoints and the publishers are still running.

\* disconnect_all(): where the two loops go next.  convs is what is left of
\* list(self.active_connections.keys()); the next conversation's set is read
\* from the dictionary as it is now (a KeyError when the key is gone) and copied,
\* and the first socket of the copy is disconnected.
RECURSIVE NextToDisconnect(_, _)
NextToDisconnect(ac, convs) ==
    IF convs = {} THEN {[pc |-> "returned", conv |-> "", socks |-> {}, convs |-> {},
                         ws |-> NoSocket]}
    ELSE UNION { IF c \notin DOMAIN ac
                 THEN {[pc |-> "raised", conv |-> c, socks |-> {}, convs |-> {},
                        ws |-> NoSocket]}
                 ELSE IF ac[c] = {} THEN NextToDisconnect(ac, convs \ {c})
                 ELSE {[pc |-> "closing", conv |-> c, socks |-> ac[c] \ {s},
                        convs |-> convs \ {c}, ws |-> s] : s \in ac[c]}
               : c \in convs }

\* disconnect_all() goes on to `to`: disconnect(to.ws, to.conv) up to its await of
\* close(), or the end of the call
DisconnectNext(to) ==
    /\ shut' = [pc |-> to.pc, conv |-> to.conv, socks |-> to.socks, convs |-> to.convs]
    /\ IF to.pc = "closing"
       THEN /\ active_connections' = DisconnectConnections(active_connections, to.ws, to.conv)
            /\ connection_metadata' = DisconnectMetadata(connection_metadata, to.ws)
            /\ wsUp' = [wsUp EXCEPT ![to.ws] = FALSE]
       ELSE UNCHANGED <<active_connections, connection_metadata, wsUp>>
    /\ UNCHANGED <<message_queues, sock, bc, nextEv, budget, delivered>>
    /\ UNCHANGED <<observe, notWS>>

\* the shutdown handler calls disconnect_all()
DisconnectAllStart ==
    /\ shut.pc = "idle"
    /\ \E to \in NextToDisconnect(active_connections, DOMAIN active_connections) :
          DisconnectNext(to)

\* disconnect_all(): the close() awaited by disconnect() has completed; the inner
\* loop disconnects the next socket of its copy, or the outer loop goes on
DisconnectAllStep ==
    /\ shut.pc = "closing"
    /\ IF shut.socks # {}
       THEN \E s \in shut.socks :
               DisconnectNext([pc |-> "closing", conv |-> shut.conv,
                               socks |-> shut.socks \ {s}, convs |-> shut.convs, ws |-> s])
       ELSE \E to \in NextToDisconnect(active_connections, shut.convs) : DisconnectNext(to)

NextShutdown ==
    \/ \E s \in Sockets, c \in Convs : ConnectBegin(s, c)
    \/ \E s \in Sockets : AcceptOk(s)
    \/ \E s \in Sockets : AcceptFail(s)
    \/ \E s \in Sockets : ReplaySend(s)
    \/ \E s \in Sockets : ConfirmSend(s)
    \/ \E s \in Sockets : EndpointDisconnect(s)
    \/ \E s \in Sockets : PeerClose(s)
    \/ \E t \in Tasks, c \in Convs : BroadcastStart(t, c)
    \/ \E t \in Tasks : BroadcastSend(t)
    \/ \E t \in Tasks : BroadcastCleanup(t)
    \/ DisconnectAllStart
    \/ DisconnectAllStep

InitShutdown ==
    /\ active_connections = EmptyDict
    /\ connection_metadata = EmptyDict
    /\ message_queues = EmptyDict
    /\ sock = [s \in Sockets |-> IdleSock]
    /\ wsUp = [s \in Sockets |-> TRUE]
    /\ bc = [t \in Tasks |-> IdleTask]
    /\ nextEv = 0
    /\ budget = MaxShutdownPublish
    /\ delivered = [s \in Sockets |-> <<>>]
    /\ observe = FALSE
    /\ shut = IdleShut
    /\ NoSearch /\ NoMerge /\ NoStageCall /\ NoTurn /\ NoCombine

SpecShutdown == InitShutdown /\ [][NextShutdown]_vars

\* ======================================================================
\* Part 2: investor search.  InvestorSearchSystem (ai_systems/search_investors.py),
\* InvestorSearchEngine (search/investor_search.py) over DatabaseManager
\* (database/manager.py), and the two entry points that start a search: the
\* /investors route and ChatService._execute_judge_decision.
\*
\* Numbers: a weight or ratio is held in tenths (0.6 is 6), so a final_score is
\* held times ten; DatabaseManager's relevance_score is held times ten as well
\* (angel_score / 10 is then angel_score itself).  Scores are whole numbers.
\* A keyword, category or stage of a candidate row is an atom, and none is
\* a substring of another, so the code's substring tests are membership tests.

min_completeness_score == 50

min_angel_score == 40

base_score == 50

employee_bonus_each == 5

default_limit == 15

Keywords == {"saas", "fintech"}

\* d.get(k, default)
Get(d, k, default) == IF k \in DOMAIN d THEN d[k] ELSE default

Min(a, b) == IF a < b THEN a ELSE b

Max(a, b) == IF a > b THEN a ELSE b

\* s[:n]
Take(s, n) == SubSeq(s, 1, Min(n, Len(s)))

\* [x for x in s if Keep(x)] is SelectSeq; sum(1 for k in ks if ...) is Cardinality.

\* ---------------------------------------------------------------- profiles
\* project_data as can_search_investors and search_investors read it.  The score
\* is the one LibrarianBot computes: stage and categories are worth 10 each and
\* everything else at most 80, and a new session has an empty dictionary.
ProfileScores == {45, 50, 55}

ProfileStages == {"", "seed", "growth"}

ProfileCategories == {<<>>, <<"saas">>}

Achievable(p) ==
    LET own == (IF p.stage # "" THEN 10 ELSE 0) + (IF p.categories # <<>> THEN 10 ELSE 0)
    IN  p.completeness_score - own \in 0..80

Profiles ==
    {EmptyDict} \cup
    {p \in [completeness_score : ProfileScores, stage : ProfileStages,
            categories : ProfileCategories] : Achievable(p)}

\* a refusal that always names both fields
can_search_investors_NamesBoth(project_data) ==
    IF Get(project_data, "completeness_score", 0) < min_completeness_score
    THEN [allowed |-> FALSE,
          reason |-> [text |-> "Necesitas al menos 50% de completitud. Falta: ",
                      missing |-> <<"etapa del proyecto", "categorias del negocio">>]]
    ELSE [allowed |-> TRUE,
          reason |-> [text |-> "Proyecto listo para busqueda de inversores",
                      missing |-> <<>>]]

\* can_search_investors: (allowed, reason).  The reason is held as the sentence it
\* starts with and the list joined after "Falta: ".
can_search_investors(project_data) ==
    LET completeness_score == Get(project_data, "completeness_score", 0)
        stage == Get(project_data, "stage", "")
        categories == Get(project_data, "categories", <<>>)
        missing_info ==
            (IF stage = "" THEN <<"etapa del proyecto">> ELSE <<>>) \o
            (IF categories = <<>> THEN <<"categorias del negocio">> ELSE <<>>)
    IN  IF completeness_score < min_completeness_score
        THEN [allowed |-> FALSE,
              reason |-> [text |-> "Necesitas al menos 50% de completitud. Falta: ",
                          missing |-> missing_info]]
        ELSE [allowed |-> TRUE,
              reason |-> [text |-> "Proyecto listo para busqueda de inversores",
                          missing |-> <<>>]]

\* ------------------------------------------------------------ stage weights
\* The strings a stage is tested against, and which of them each stage string of
\* the model contains once lower-cased (term in stage_lower).
TermsIn(stage) ==
    CASE stage = "seed" -> {"seed"}
      [] stage = "pre-seed" -> {"pre-seed", "seed"}
      [] stage = "mvp" -> {"mvp"}
      [] stage = "Series A" -> {"series a"}
      [] stage = "series_a" -> {"series_a"}
      [] stage = "growth" -> {"growth"}
      [] stage = "ipo" -> {"ipo"}
      [] stage = "idea" -> {"idea"}
      [] stage = "prototype" -> {"prototype"}
      [] stage = "Series B" -> {"series b"}
      [] stage = "Series C" -> {"series c"}
      [] stage = "pre-IPO" -> {"ipo"}
      [] stage = "scale" -> {"scale"}
      [] OTHER -> {}

AnyTerm(stage, terms) == TermsIn(stage) \cap terms # {}

\* stage weights that do not add up to one
calculate_stage_weights_Unnormalised(stage) ==
    IF stage = Null \/ stage = "" THEN [angels |-> 6, funds |-> 6]
    ELSE [angels |-> 8, funds |-> 4]

\* InvestorSearchSystem._calculate_stage_weights, in tenths
calculate_stage_weights(stage) ==
    IF stage = Null \/ stage = "" THEN [angels |-> 6, funds |-> 4]
    ELSE IF AnyTerm(stage, {"pre-seed", "preseed", "idea", "prototype", "mvp"})
         THEN [angels |-> 8, funds |-> 2]
    ELSE IF AnyTerm(stage, {"seed", "semilla"})
         THEN [angels |-> 6, funds |-> 4]
    ELSE IF AnyTerm(stage, {"series a", "series b", "serie a", "serie b", "growth", "expansion"})
         THEN [angels |-> 3, funds |-> 7]
    ELSE IF AnyTerm(stage, {"series c", "serie c", "late stage", "mezzanine", "ipo"})
         THEN [angels |-> 1, funds |-> 9]
    ELSE [angels |-> 6, funds |-> 4]

\* InvestorSearchEngine._calculate_search_distribution, in tenths
calculate_search_distribution(stage_keywords) ==
    LET early_stages == {"idea", "prototype", "mvp", "pre-seed", "seed"}
        later_stages == {"series_a", "series_b", "series_c", "growth", "scale"}
        early_count == Cardinality({s \in stage_keywords : AnyTerm(s, early_stages)})
        later_count == Cardinality({s \in stage_keywords : AnyTerm(s, later_stages)})
    IN  IF stage_keywords = {} THEN [angels |-> 5, funds |-> 5]
        ELSE IF early_count > later_count THEN [angels |-> 7, funds |-> 3]
        ELSE IF later_count > early_count THEN [angels |-> 3, funds |-> 7]
        ELSE [angels |-> 5, funds |-> 5]

\* ------------------------------------------------------------------ sorting
\* key(x) > key(y) for the key each list.sort call gives
KeyGreater(key, x, y) ==
    CASE key = "final_score" -> x.final_score > y.final_score
      [] key = "angel_score" -> x.angel_score > y.angel_score
      [] key = "relevance_score" -> x.relevance_score > y.relevance_score
      [] key = "relevance_score,angel_score" ->
            \/ x.relevance_score > y.relevance_score
            \/ x.relevance_score = y.relevance_score /\ x.angel_score > y.angel_score
      [] key = "relevance_score,score" ->
            \/ x.relevance_score > y.relevance_score
            \/ x.relevance_score = y.relevance_score /\ x.score > y.score

\* x put into a list sorted in descending order, behind the elements it does not exceed
InsertDesc(key, sorted, x) ==
    LET before == {i \in 1..Len(sorted) : KeyGreater(key, x, sorted[i])}
        at == IF before = {} THEN Len(sorted) + 1
              ELSE CHOOSE i \in before : \A j \in before : i <= j
    IN  SubSeq(sorted, 1, at - 1) \o <<x>> \o SubSeq(sorted, at, Len(sorted))

\* A sort that leaves the list as it is (not what the code does).
SortDesc_Unsorted(key, s) == s

\* list.sort(key=..., reverse=True): descending, and stable
RECURSIVE SortDesc(_, _)
SortDesc(key, s) ==
    IF s = <<>> THEN <<>>
    ELSE InsertDesc(key, SortDesc(key, SubSeq(s, 1, Len(s) - 1)), s[Len(s)])

\* --------------------------------------------------------- candidate store
\* Rows of Angel_Investors and Investment_Funds.  categories and stages stand for
\* the categories_* / stage_* columns (angels) and for category_keywords /
\* stage_keywords (funds).
Angel(n, sc, cats, sts) == [name |-> n, angel_score |-> sc, categories |-> cats, stages |-> sts]

Fund(n, cats, sts) == [name |-> n, categories |-> cats, stages |-> sts]

\* a table with more angels above the minimum score than one result list holds
\* together with the funds
ManyAngels ==
    [i \in 1..14 |->
        Angel(<<"b01", "b02", "b03", "b04", "b05", "b06", "b07", "b08", "b09", "b10",
                "b11", "b12", "b13", "b14">>[i],
              40 + 4 * ((i * 5) % 14), {"saas"}, {"seed"})]

AngelTables ==
    { <<>>, ManyAngels,
      << Angel("a3", 70, {"fintech"}, {"seed"}), Angel("a1", 100, {"saas"}, {}),
         Angel("a2", 50, {"saas", "fintech"}, {"seed"}), Angel("a4", 30, {"saas"}, {"seed"}) >>,
      << Angel("a5", 40, {"saas"}, {"growth"}), Angel("a6", 100, {"saas"}, {"seed"}) >> }

FundTables ==
    { <<>>,
      << Fund("f1", {"saas"}, {"seed"}), Fund("f2", {"saas", "fintech"}, {"seed", "growth"}),
         Fund("f3", {}, {"seed"}) >>,
      << Fund("f4", {"fintech"}, {}), Fund("f5", {"saas"}, {"growth"}) >> }

\* DatabaseManager._calculate_angel_relevance, times ten
calculate_angel_relevance(investor, keywords, stages) ==
    LET keyword_matches == Cardinality(keywords \cap investor.categories)
        stage_matches == Cardinality(stages \cap investor.stages)
    IN  Min(Min(investor.angel_score, 100) + keyword_matches * 50 + stage_matches * 30, 1000)

\* DatabaseManager._calculate_fund_relevance, times ten
calculate_fund_relevance(fund, keywords, stages) ==
    LET keyword_matches == Cardinality(keywords \cap fund.categories)
        stage_matches == Cardinality(stages \cap fund.stages)
    IN  Min(keyword_matches * 50 + stage_matches * 30, 1000)

\* the rows text_search("fts", "k1 | k2 ...") lets through
TextSearch(rows, keywords) ==
    IF keywords = {} THEN rows
    ELSE SelectSeq(rows, LAMBDA r : r.categories \cap keywords # {})

\* DatabaseManager.search_angel_investors, when the query succeeds
search_angel_investors(table, keywords, stages, min_score, limit) ==
    LET data == Take(TextSearch(SelectSeq(table, LAMBDA r : r.angel_score >= min_score),
                                keywords), limit)
        processed == [i \in 1..Len(data) |->
                         [name |-> data[i].name, angel_score |-> data[i].angel_score,
                          relevance_score |->
                              calculate_angel_relevance(data[i], keywords, stages)]]
    IN  SortDesc("relevance_score,angel_score", processed)

\* DatabaseManager.search_investment_funds, when the query succeeds
search_investment_funds(table, keywords, stages, limit) ==
    LET data == Take(SelectSeq(table, LAMBDA r : r.categories # {}), limit * 2)
        scored == [i \in 1..Len(data) |->
                      [name |-> data[i].name,
                       relevance_score |->
                           calculate_fund_relevance(data[i], keywords, stages)]]
        processed == SelectSeq(scored, LAMBDA f : f.relevance_score > 0)
    IN  Take(SortDesc("relevance_score", processed), limit)

\* InvestorSearchSystem._search_angels, when the query succeeds
system_search_angels(table, weight) ==
    LET data == Take(SortDesc("angel_score",
                        SelectSeq(table, LAMBDA r : r.angel_score >= min_angel_score)),
                     default_limit)
    IN  [i \in 1..Len(data) |->
            [type |-> "angel", name |-> data[i].name, score |-> data[i].angel_score,
             search_weight |-> weight]]

\* InvestorSearchSystem._search_funds, when the query succeeds
system_search_funds(table, weight) ==
    LET data == Take(table, default_limit)
    IN  [i \in 1..Len(data) |->
            [type |-> "fund", name |-> data[i].name, search_weight |-> weight]]

\* InvestorSearchSystem._get_fund_employees
get_fund_employees(funds_results) == <<>>

\* a fund score whose employee bonus has no cap
fund_score_Uncapped(employee_count) == base_score + employee_count * employee_bonus_each

\* _combine_results: fund['score'] = min(base_score + employee_bonus, 100.0)
fund_score(employee_count) ==
    Min(base_score + employee_count * employee_bonus_each, 100)

\* a combination that cuts the list before it is sorted
combine_results_CutFirst(angels, funds, employees, weights) ==
    LET scoredAngels ==
            [i \in 1..Len(angels) |->
                [type |-> "angel", name |-> angels[i].name, score |-> angels[i].score,
                 search_weight |-> angels[i].search_weight,
                 final_score |-> angels[i].score * weights.angels]]
        scoredFunds ==
            [i \in 1..Len(funds) |->
                [type |-> "fund", name |-> funds[i].name,
                 search_weight |-> funds[i].search_weight,
                 employees |-> <<>>,
                 score |-> base_score,
                 final_score |-> base_score * weights.funds]]
    IN  SortDesc("final_score", Take(scoredAngels \o scoredFunds, 2))

\* InvestorSearchSystem._combine_results (final_score times ten)
combine_results(angels, funds, employees, weights) ==
    LET scoredAngels ==
            [i \in 1..Len(angels) |->
                [type |-> "angel", name |-> angels[i].name, score |-> angels[i].score,
                 search_weight |-> angels[i].search_weight,
                 final_score |-> angels[i].score * weights.angels]]
        fund_employees(f) == SelectSeq(employees, LAMBDA emp : emp.fund_name = f.name)
        scoredFunds ==
            [i \in 1..Len(funds) |->
                [type |-> "fund", name |-> funds[i].name,
                 search_weight |-> funds[i].search_weight,
                 employees |-> Take(fund_employees(funds[i]), 5),
                 score |-> fund_score(Len(fund_employees(funds[i]))),
                 final_score |-> fund_score(Len(fund_employees(funds[i]))) * weights.funds]]
    IN  Take(SortDesc("final_score", scoredAngels \o scoredFunds), default_limit)

\* InvestorSearchEngine._combine_search_results
combine_search_results(angels, funds) ==
    LET a == [i \in 1..Len(angels) |->
                 [investor_type |-> "angel", display_name |-> angels[i].name,
                  score |-> angels[i].angel_score,
                  relevance_score |-> angels[i].relevance_score]]
        f == [i \in 1..Len(funds) |->
                 [investor_type |-> "fund", display_name |-> funds[i].name,
                  score |-> funds[i].relevance_score,
                  relevance_score |-> funds[i].relevance_score]]
    IN  SortDesc("relevance_score,score", a \o f)

\* ------------------------------------------------------------ the requests
\* What an entry point hands to InvestorSearchEngine.search_investors.  The chat
\* path passes the judge's categories as keywords, its stage as the one stage
\* keyword, no categories and limit 15.
RequestLimits == {2, default_limit}

RequestStages == {{}, {"seed"}, {"growth"}}

Requests(entry) ==
    IF entry = "chat"
    THEN [keywords : SUBSET Keywords, stage_keywords : RequestStages,
          categories : {{}}, limit : {default_limit}]
    ELSE [keywords : SUBSET Keywords, stage_keywords : RequestStages,
          categories : {{}, {"saas"}}, limit : RequestLimits]

NoRequest == [keywords |-> {}, stage_keywords |-> {}, categories |-> {}, limit |-> 0]

IdleSearch ==
    [pc |-> "idle", impl |-> "", entry |-> "", req |-> NoRequest,
     weights |-> [angels |-> 0, funds |-> 0], stage |-> "",
     angels |-> <<>>, funds |-> <<>>, aFailed |-> FALSE, fFailed |-> FALSE,
     raised |-> "", response |-> EmptyDict, reply |-> ""]

\* what the entry point makes of an exception of the search
ReplyToError(entry, exc) ==
    CASE entry = "router" -> IF exc = "ValueError" THEN "400" ELSE "500"
      [] entry = "chat" -> "chat_error"
      [] OTHER -> "raised"

ReplyToResult(entry) ==
    CASE entry = "router" -> "200"
      [] entry = "chat" -> "chat_ok"
      [] OTHER -> "returned"

InitSearchSystem ==
    /\ project \in Profiles
    /\ db \in [angels : AngelTables, funds : FundTables]
    /\ srch = IdleSearch
    /\ gate = [allowed |-> FALSE, reason |-> [text |-> "", missing |-> <<>>], asked |-> FALSE]

\* can_search_investors(project_data) is called
CanSearch ==
    /\ srch.pc = "idle"
    /\ ~gate.asked
    /\ gate' = [allowed |-> can_search_investors(project).allowed,
                reason |-> can_search_investors(project).reason,
                asked |-> TRUE]
    /\ UNCHANGED <<project, db, srch, notSearch>>

\* The /investors route or _execute_judge_decision calls
\* InvestorSearchEngine.search_investors: validation, distribution, and the two
\* query coroutines handed to asyncio.gather.
EngineStart(entry, req) ==
    /\ srch.pc = "idle"
    /\ entry \in {"router", "chat"}
    /\ IF req.keywords = {} /\ req.stage_keywords = {} /\ req.categories = {}
       THEN srch' = [IdleSearch EXCEPT !.pc = "done", !.impl = "engine", !.entry = entry,
                                       !.req = req, !.raised = "ValueError",
                                       !.reply = ReplyToError(entry, "ValueError")]
       ELSE srch' = [IdleSearch EXCEPT !.pc = "angels", !.impl = "engine", !.entry = entry,
                                       !.req = req,
                                       !.weights = calculate_search_distribution(req.stage_keywords)]
    /\ UNCHANGED <<project, db, gate, notSearch>>

\* InvestorSearchSystem.search_investors(user_message, project_data, conversation_id)
\* is called: stage weights, and the two query coroutines handed to asyncio.gather.
SystemStart ==
    /\ srch.pc = "idle"
    /\ srch' = [IdleSearch EXCEPT !.pc = "angels", !.impl = "system", !.entry = "direct",
                                  !.stage = Get(project, "stage", ""),
                                  !.weights = calculate_stage_weights(Get(project, "stage", ""))]
    /\ UNCHANGED <<project, db, gate, notSearch>>

\* The angels query runs (it has no await inside, so it runs to its end): it
\* answers or the database call raises.
QueryAngels(ok) ==
    /\ srch.pc = "angels"
    /\ srch' =
         [srch EXCEPT
            !.pc = "funds",
            !.aFailed = ~ok,
            !.angels =
               IF ~ok THEN <<>>
               ELSE IF srch.impl = "system"
                    THEN system_search_angels(db.angels, srch.weights.angels)
                    ELSE search_angel_investors(
                             db.angels, srch.req.keywords, srch.req.stage_keywords,
                             min_angel_score,
                             Max(1, (srch.req.limit * srch.weights.angels) \div 10))]
    /\ UNCHANGED <<project, db, gate, notSearch>>

\* The funds query runs next, whatever the angels query did.
QueryFunds(ok) ==
    /\ srch.pc = "funds"
    /\ srch' =
         [srch EXCEPT
            !.pc = "combine",
            !.fFailed = ~ok,
            !.funds =
               IF ~ok THEN <<>>
               ELSE IF srch.impl = "system"
                    THEN system_search_funds(db.funds, srch.weights.funds)
                    ELSE search_investment_funds(
                             db.funds, srch.req.keywords, srch.req.stage_keywords,
                             Max(1, (srch.req.limit * srch.weights.funds) \div 10))]
    /\ UNCHANGED <<project, db, gate, notSearch>>

\* asyncio.gather returns.  InvestorSearchSystem's queries caught their own
\* exceptions and returned []; InvestorSearchEngine's let them through, gather
\* re-raises the first, and search_investors re-raises it to the entry point.
SearchFinish ==
    /\ srch.pc = "combine"
    /\ IF srch.impl = "system"
       THEN srch' =
              [srch EXCEPT
                 !.pc = "done",
                 !.response =
                    [results |-> combine_results(srch.angels, srch.funds,
                                                 get_fund_employees(srch.funds), srch.weights),
                     total_angels |-> Len(srch.angels),
                     total_funds |-> Len(srch.funds),
                     stage_weights |-> srch.weights],
                 !.reply = ReplyToResult(srch.entry)]
       ELSE IF srch.aFailed \/ srch.fFailed
       THEN srch' = [srch EXCEPT !.pc = "done", !.raised = "Exception",
                                 !.reply = ReplyToError(srch.entry, "Exception")]
       ELSE srch' =
              [srch EXCEPT
                 !.pc = "done",
                 !.response =
                    [results |-> Take(combine_search_results(srch.angels, srch.funds),
                                      srch.req.limit),
                     angels_found |-> Len(srch.angels),
                     funds_found |-> Len(srch.funds),
                     search_distribution |-> srch.weights,
                     search_type |-> "investors",
                     success |-> TRUE],
                 !.reply = ReplyToResult(srch.entry)]
    /\ UNCHANGED <<project, db, gate, notSearch>>

\* the caller has its answer; the next search can start
SearchAck ==
    /\ srch.pc = "done"
    /\ srch' = IdleSearch
    /\ UNCHANGED <<project, db, gate, notSearch>>

NextSearch ==
    \/ CanSearch
    \/ \E entry \in {"router", "chat"} : \E req \in Requests(entry) : EngineStart(entry, req)
    \/ SystemStart
    \/ \E ok \in BOOLEAN : QueryAngels(ok)
    \/ \E ok \in BOOLEAN : QueryFunds(ok)
    \/ SearchFinish
    \/ SearchAck

InitSearch == InitSearchSystem /\ NoFanout /\ NoMerge /\ NoStageCall /\ NoTurn /\ NoCombine

SpecSearch == InitSearch /\ [][NextSearch]_vars


\* ======================================================================
\* Part 3: the profile merger, LibrarianBot (ai_systems/librarian.py) over the
\* pydantic models of models/user.py.
\*
\* None is the empty dictionary; a ProjectData object is a record of the fields
\* the merger reads or writes.  A scalar that is None is "", categories is the set
\* of the list's elements (the code builds the list with list(set(...)), whose
\* order is not fixed), and a sub-record that is None is the empty dictionary.
\* A completeness score is held times three (metrics count in thirds of 20).

MaxMerges == 3

None == EmptyDict

IsNone(x) == DOMAIN x = {}

\* ProjectCategory and ProjectStage (models/base.py): the values an assignment to
\* ProjectData.categories / .stage accepts (Config.validate_assignment)
ProjectCategoryValues ==
    {"fintech", "healthtech", "edtech", "proptech", "retail", "saas", "marketplace",
     "social", "gaming", "ai", "other"}

ProjectStageValues == {"idea", "prototype", "mvp", "early_revenue", "growth", "scale"}

\* ProjectMetrics(), TeamInfo(), FundingInfo(), ProjectData()
NewProjectMetrics == [revenue |-> "", users |-> "", growth_rate |-> ""]

NewTeamInfo == [size |-> "", founders |-> <<>>]

NewFundingInfo == [funding_stage |-> "", amount_raised |-> ""]

NewProjectData ==
    [categories |-> {}, stage |-> "", problem_solved |-> "", solution |-> "",
     target_market |-> "", business_model |-> "",
     metrics |-> None, team_info |-> None, funding_info |-> None]

\* str.lower() on the category names of the model
Lower(s) == IF s = "SaaS" THEN "saas" ELSE s

\* str.strip() on the text values of the model
Strip(s) == CASE s = "  " -> "" [] s = " p2 " -> "p2" [] OTHER -> s

\* The parsed JSON documents the oracle may answer with (json.loads of its text).
\* Python lists of categories are sets here, lists of founders are sequences,
\* and a nested object that is null is None.
OracleData ==
    { EmptyDict,
      [categories |-> {"saas"}],
      [categories |-> {"SaaS"}],
      [categories |-> {"fintech"}, stage |-> "mvp"],
      [stage |-> "seed"],
      [problem_solved |-> "p1", solution |-> "s1"],
      [target_market |-> "t1", business_model |-> "b1", metrics |-> [revenue |-> "10k"]],
      [team_info |-> [founders |-> <<"Ann">>, experience |-> "x"]],
      [team_info |-> [founders |-> <<"Bob">>, size |-> "2"]],
      [funding_info |-> [funding_stage |-> "seed"]],
      [categories |-> {}, stage |-> "  ", problem_solved |-> " p2 ", solution |-> ""],
      [stage |-> "growth", target_market |-> Null, metrics |-> [revenue |-> "", growth_rate |-> Null]],
      [team_info |-> [founders |-> <<>>]],
      [metrics |-> None, funding_info |-> [funding_stage |-> ""]] }

\* What model.generate_content and json.loads leave _extract_project_info with:
\* a parsed document, or an exception (the call raised, or the text is not JSON)
OracleReplies ==
    {[parsed |-> TRUE, data |-> d] : d \in OracleData} \cup {[parsed |-> FALSE, data |-> EmptyDict]}

\* _clean_extracted_data: a basic field is kept when it is a non-blank string
\* (stored stripped) or a non-empty list
BasicKept(field, value) ==
    IF field = "categories" THEN value # {}
    ELSE value # Null /\ value # "" /\ Strip(value) # ""

\* _clean_extracted_data: {k: v for k, v in ....items() if v is not None and v != ""};
\* a list, empty or not, is neither None nor ""
NestedKept(key, value) ==
    IF key = "founders" THEN TRUE ELSE value # Null /\ value # ""

clean_extracted_data(data) ==
    LET basic == {f \in {"categories", "stage", "problem_solved", "solution",
                         "target_market", "business_model"} \cap DOMAIN data :
                     BasicKept(f, data[f])}
        nested == {n \in {"metrics", "team_info", "funding_info"} \cap DOMAIN data :
                      ~IsNone(data[n])}
    IN  [k \in basic \cup nested |->
            IF k = "categories" THEN data[k]
            ELSE IF k \in basic THEN Strip(data[k])
            ELSE [j \in {i \in DOMAIN data[k] : NestedKept(i, data[k][i])} |-> data[k][j]]]

\* _extract_project_info: the cleaned dictionary, or {} when the try block raised
extract_project_info(reply) ==
    IF reply.parsed THEN clean_extracted_data(reply.data) ELSE EmptyDict

\* What _extract_project_info can return
Extractions == {extract_project_info(reply) : reply \in OracleReplies}

\* the falsy value of a field: an empty list, or None / the empty string
EmptyValue(f) == CASE f = "categories" -> {} [] f = "founders" -> <<>> [] OTHER -> ""

\* a merge of sub-fields that clears a sub-field when it is given the value the
\* sub-field already holds
MergeSub_Toggle(sub, ext) ==
    [k \in DOMAIN sub |-> IF k \in DOMAIN ext
                          THEN (IF sub[k] = ext[k] THEN EmptyValue(k) ELSE ext[k])
                          ELSE sub[k]]

\* for key, value in extracted[...].items(): if hasattr(sub, key): setattr(sub, key, value)
MergeSub(sub, ext) == [k \in DOMAIN sub |-> IF k \in DOMAIN ext THEN ext[k] ELSE sub[k]]

\* _merge_project_data(current, extracted).  The assignments are made in the code's
\* order on the object itself; an assignment pydantic rejects raises and leaves
\* the earlier ones made.  data: the object as the call leaves it.
merge_project_data(current, extracted) ==
    LET c0 == IF IsNone(current) THEN NewProjectData ELSE current
        c1 == [k \in DOMAIN c0 |->
                  IF k \in {"problem_solved", "solution", "target_market", "business_model"}
                     /\ k \in DOMAIN extracted
                  THEN extracted[k] ELSE c0[k]]
        merged_cats == IF "categories" \in DOMAIN extracted
                       THEN c1.categories \cup extracted.categories ELSE c1.categories
        catsOk == merged_cats \subseteq ProjectCategoryValues
        c2 == [c1 EXCEPT !.categories = merged_cats]
        stageOk == "stage" \in DOMAIN extracted => extracted.stage \in ProjectStageValues
        c3 == IF "stage" \in DOMAIN extracted THEN [c2 EXCEPT !.stage = extracted.stage] ELSE c2
        c4 == IF "metrics" \in DOMAIN extracted
              THEN [c3 EXCEPT !.metrics =
                        MergeSub(IF IsNone(@) THEN NewProjectMetrics ELSE @, extracted.metrics)]
              ELSE c3
        c5 == IF "team_info" \in DOMAIN extracted
              THEN [c4 EXCEPT !.team_info =
                        MergeSub(IF IsNone(@) THEN NewTeamInfo ELSE @, extracted.team_info)]
              ELSE c4
        c6 == IF "funding_info" \in DOMAIN extracted
              THEN [c5 EXCEPT !.funding_info =
                        MergeSub(IF IsNone(@) THEN NewFundingInfo ELSE @, extracted.funding_info)]
              ELSE c5
    IN  IF ~catsOk THEN [raised |-> TRUE, data |-> c1]
        ELSE IF ~stageOk THEN [raised |-> TRUE, data |-> c2]
        ELSE [raised |-> FALSE, data |-> c6]

\* how many of the fields hold a truthy value
CountTruthy(rec, fields) == Cardinality({f \in fields : rec[f] # EmptyValue(f)})

\* _calculate_completeness(project_data), times three
calculate_completeness(pd) ==
    LET basic == 10 * CountTruthy(pd, {"categories", "stage", "problem_solved", "solution"})
        business == 10 * CountTruthy(pd, {"target_market", "business_model"})
        metrics3 == IF IsNone(pd.metrics) THEN 0
                    ELSE 20 * CountTruthy(pd.metrics, {"revenue", "users", "growth_rate"})
        team3 == IF IsNone(pd.team_info) THEN 0
                 ELSE 15 * CountTruthy(pd.team_info, {"size", "founders"})
        funding == IF IsNone(pd.funding_info) THEN 0 ELSE 10
    IN  3 * (basic + business + funding) + metrics3 + team3

\* LibrarianUpdate(...) as process_conversation_update calls it: the model's
\* required fields (models/ai_systems.py) against the keywords the call passes
LibrarianUpdateRequired ==
    {"conversation_id", "project_id", "user_message", "assistant_response",
     "extractions", "confidence", "processing_time_ms"}

LibrarianUpdatePassed ==
    {"conversation_id", "project_id", "user_message", "assistant_response",
     "context_extracted", "relevance_score", "success"}

LibrarianUpdateValidates == LibrarianUpdateRequired \subseteq LibrarianUpdatePassed

\* the object the caller holds after a call that worked on `current` in place
InPlace(current, data) == IF IsNone(current) THEN None ELSE data

\* process_conversation_update(..., current_project_data): the dictionary returned
process_conversation_update(current, extracted) ==
    LET m == merge_project_data(current, extracted)
    IN  IF ~m.raised /\ LibrarianUpdateValidates
        THEN [project_data |-> m.data,
              completeness_score |-> calculate_completeness(m.data),
              extracted_fields |-> DOMAIN extracted,
              success |-> TRUE]
        ELSE [project_data |-> InPlace(current, m.data),
              completeness_score |-> 0,
              extracted_fields |-> {},
              success |-> FALSE]

\* the text fields _merge_project_data assigns from the extraction
ScalarFields == {"stage", "problem_solved", "solution", "target_market", "business_model"}

\* what the extractions have supplied: the union of the list-valued fields and
\* the latest extraction itself
Supplied(h, extracted) ==
    [h EXCEPT
       !.categories = @ \cup Get(extracted, "categories", {}),
       !.founders = @ \cup Range(Get(Get(extracted, "team_info", EmptyDict), "founders", <<>>)),
       !.extracted = extracted,
       !.calls = @ + 1]

InitLibrarian ==
    /\ profile \in {None, NewProjectData}
    /\ mergeOut = [project_data |-> None, completeness_score |-> 0,
                   extracted_fields |-> {}, success |-> FALSE]
    /\ hist = [categories |-> {}, founders |-> {},
               extracted |-> EmptyDict, op |-> "none", parsed |-> TRUE, calls |-> 0]

\* _merge_project_data(current, extracted) is called on the profile; the caller
\* keeps the object it returns (or, when it raises, the object it passed).
MergeCall(extracted) ==
    /\ hist.calls < MaxMerges
    /\ LET m == merge_project_data(profile, extracted)
       IN  profile' = IF m.raised THEN InPlace(profile, m.data) ELSE m.data
    /\ hist' = [Supplied(hist, extracted) EXCEPT !.op = "merge", !.parsed = TRUE]
    /\ UNCHANGED <<mergeOut, notMerge>>

\* process_conversation_update is called with the profile: the oracle is asked,
\* its reply cleaned and merged, and the caller stores the project_data returned
\* (routers/chat.py).
ProcessConversationUpdate(reply) ==
    /\ hist.calls < MaxMerges
    /\ mergeOut' = process_conversation_update(profile, extract_project_info(reply))
    /\ profile' = mergeOut'.project_data
    /\ hist' = [Supplied(hist, extract_project_info(reply)) EXCEPT
                  !.op = "update", !.parsed = reply.parsed]
    /\ UNCHANGED notMerge

NextMerge ==
    \/ \E extracted \in Extractions : MergeCall(extracted)
    \/ \E reply \in OracleReplies : ProcessConversationUpdate(reply)

InitMerge == InitLibrarian /\ NoFanout /\ NoSearch /\ NoStageCall /\ NoTurn /\ NoCombine

SpecMerge == InitMerge /\ [][NextMerge]_vars



\* ======================================================================
\* Part 4: the stage-weight functions on their own.
\* InvestorSearchSystem._calculate_stage_weights (ai_systems/search_investors.py)
\* and InvestorSearchEngine._calculate_search_distribution
\* (search/investor_search.py), each applied to the arguments of one call.
\* ======================================================================

\* the stage strings of the calls: None, the empty string, the stage names of
\* the bands, and text no band knows
StageInputs ==
    {Null, "", "idea", "prototype", "mvp", "pre-seed", "seed", "Series A", "Series B",
     "series_a", "growth", "Series C", "pre-IPO", "scale", "early_revenue", "bridge"}

\* the stage_keywords lists of the calls (None and [] are both the empty list
\* here); of at most two stage strings
StageKeywordLists ==
    {ks \in SUBSET (StageInputs \ {Null}) : Cardinality(ks) <= 2}

Unset == [angels |-> -1, funds |-> -1]

InitStageCall ==
    /\ stageCall \in [stage : StageInputs, stage_keywords : StageKeywordLists]
    /\ stageRet = [weights |-> Unset, distribution |-> Unset]

\* weights = self._calculate_stage_weights(stage)
CalculateStageWeights ==
    /\ stageRet.weights = Unset
    /\ stageRet' = [stageRet EXCEPT !.weights = calculate_stage_weights(stageCall.stage)]
    /\ UNCHANGED <<stageCall, notStage>>

\* angels_ratio, funds_ratio = self._calculate_search_distribution(stage_keywords, ...)
CalculateSearchDistribution ==
    /\ stageRet.distribution = Unset
    /\ stageRet' = [stageRet EXCEPT
                      !.distribution = calculate_search_distribution(stageCall.stage_keywords)]
    /\ UNCHANGED <<stageCall, notStage>>

NextStage == CalculateStageWeights \/ CalculateSearchDistribution

InitStage == InitStageCall /\ NoFanout /\ NoSearch /\ NoMerge /\ NoTurn /\ NoCombine

SpecStage == InitStage /\ [][NextStage]_vars



\* ======================================================================
\* Part 5: one chat turn.  The three handlers of an inbound chat message:
\* WebSocketManager._handle_chat_message (api/websockets/manager.py),
\* send_message (api/routers/chat.py) and ChatService.process_message
\* (services/chat_service.py), with JudgeSystem.analyze_user_intent
\* (ai_systems/judge_system.py).  A turn runs the awaited calls of its handler
\* in the handler's order; each call returns or raises.
\* ======================================================================

Entries == {"websocket", "router", "service"}

\* the message contents of the model; "" is a message without content and "  "
\* one of blanks only
Messages == {"", "  ", "hola", "busco inversores", "una empresa de servicio"}

\* _create_fallback_decision: which of its keywords the lower-cased message contains
FallbackWordsIn(user_message) ==
    CASE user_message = "busco inversores" -> {"inversor"}
      [] user_message = "una empresa de servicio" -> {"empresa", "servicio"}
      [] OTHER -> {}

\* JudgeSystem._create_fallback_decision (confidence in tenths)
create_fallback_decision(user_message) ==
    IF FallbackWordsIn(user_message) \cap {"inversor", "investment", "funding", "capital"} # {}
    THEN [decision |-> "search_investors", confidence |-> 6]
    ELSE IF FallbackWordsIn(user_message) \cap {"empresa", "servicio", "company", "service"} # {}
    THEN [decision |-> "search_companies", confidence |-> 6]
    ELSE [decision |-> "chat", confidence |-> 8]

\* the decisions a handler acts on, and the confidences of the model (tenths)
Decisions == {"chat", "search_investors", "search_companies", "welcome", "mentor_response"}

Confidences == {5, 9}

\* How the oracle's part of analyze_user_intent ends: the decision the try block
\* arrives at, or an exception (generate_content_async raised, or
\* _parse_gemini_response rejected the text)
JudgeReplies ==
    {[kind |-> "ok", decision |-> d, confidence |-> c] : d \in Decisions, c \in Confidences}
    \cup {[kind |-> k, decision |-> "", confidence |-> 0] : k \in {"raises", "unparsable"}}

\* JudgeSystem.analyze_user_intent: the try block's decision, or the fallback of
\* the except branch
analyze_user_intent(user_message, reply) ==
    IF reply.kind = "ok"
    THEN [decision |-> reply.decision, confidence |-> reply.confidence]
    ELSE create_fallback_decision(user_message)

\* The awaited calls of each handler, in the handler's order.
Pipeline(entry) ==
    CASE entry = "websocket" ->
            <<"typing", "spam", "language", "classify", "respond", "merge", "deliver">>
      [] entry = "router" ->
            <<"spam", "language", "classify", "respond", "merge", "deliver">>
      [] entry = "service" ->
            <<"language", "spam", "classify", "publish_decision", "execute", "upsell",
              "deliver">>

NoDecision == [decision |-> "", confidence |-> 0]

IdleTurn ==
    [entry |-> "", message |-> "", pc |-> 0, steps |-> <<>>, judge |-> "", decision |-> NoDecision,
     reply |-> ""]

InitTurnIdle == turn = IdleTurn

\* the call the handler is about to make
NextCall == Pipeline(turn.entry)[turn.pc]

Running == turn.pc >= 1

\* the step made, and the handler moved on; after the last call it has returned
Advance(t, step) ==
    [t EXCEPT !.steps = Append(@, step),
              !.pc = IF @ = Len(Pipeline(t.entry)) THEN 0 ELSE @ + 1]

\* the handler is entered with a message; _handle_chat_message strips the
\* content and answers a message without content with send_error_message and
\* returns, and a ChatMessage (the other two handlers) has content of at least
\* one character, which is not stripped
HandleMessage(entry, message) ==
    /\ turn.pc = 0 /\ turn.entry = ""
    /\ message = "" => entry = "websocket"
    /\ turn' = IF entry = "websocket" /\ Strip(message) = ""
               THEN [IdleTurn EXCEPT !.entry = entry, !.message = message,
                                     !.steps = <<"send_error">>, !.reply = "error"]
               ELSE [IdleTurn EXCEPT !.entry = entry, !.message = message, !.pc = 1]
    /\ UNCHANGED notTurn

\* an awaited call other than the spam check, the judge and the final send returns
CallReturns ==
    /\ Running
    /\ NextCall \in {"typing", "language", "respond", "merge", "publish_decision", "upsell"}
    /\ turn' = Advance(turn, NextCall)
    /\ UNCHANGED notTurn

\* an anti-spam check that returns for spam without a response (not what the
\* code does)
SpamCheck_Silent(is_spam) ==
    /\ Running
    /\ NextCall = "spam"
    /\ turn' = IF is_spam
               THEN [turn EXCEPT !.steps = @ \o <<"spam">>, !.pc = 0]
               ELSE Advance(turn, "spam")
    /\ UNCHANGED notTurn

\* the anti-spam check returns; for spam the handler sends the anti-spam
\* response and returns
SpamCheck(is_spam) ==
    /\ Running
    /\ NextCall = "spam"
    /\ turn' = IF is_spam
               THEN [turn EXCEPT !.steps = @ \o <<"spam", "deliver">>, !.pc = 0,
                                 !.reply = "anti_spam"]
               ELSE Advance(turn, "spam")
    /\ UNCHANGED notTurn

\* the judge returns: analyze_user_intent for ChatService, with the oracle's
\* reply; judge_system.analyze_message for the other two
Classify(reply) ==
    /\ Running
    /\ NextCall = "classify"
    /\ turn.entry # "service" => reply.kind = "ok"
    /\ turn' = [Advance(turn, "classify") EXCEPT
                  !.judge = reply.kind,
                  !.decision = analyze_user_intent(turn.message, reply)]
    /\ UNCHANGED notTurn

\* ChatService._execute_judge_decision: a search for the two search decisions,
\* then the response for the decision
Execute ==
    /\ Running
    /\ NextCall = "execute"
    /\ turn' = [turn EXCEPT
                  !.steps = @ \o (IF turn.decision.decision \in {"search_investors", "search_companies"}
                                  THEN <<"search", "respond">> ELSE <<"respond">>),
                  !.pc = @ + 1]
    /\ UNCHANGED notTurn

\* the reply is sent: send_ai_response, or the ChatResponse returned
Deliver ==
    /\ Running
    /\ NextCall = "deliver"
    /\ turn' = [Advance(turn, "deliver") EXCEPT !.reply = "ai_response"]
    /\ UNCHANGED notTurn

\* an awaited call raises (for the judge: the call itself, analyze_user_intent
\* catches what its body raises): the handler's except branch sends the fallback
\* response (websocket), answers 500 (router) or returns the error ChatResponse.
\* broadcast_to_conversation catches what its sends raise, so the two calls that
\* only publish (the typing indicator, the final send) do not raise.
CallRaises ==
    /\ Running
    /\ NextCall \notin {"typing", "deliver"}
    /\ turn' = [turn EXCEPT !.steps = @ \o <<"deliver">>, !.pc = 0,
                            !.reply = CASE turn.entry = "websocket" -> "fallback"
                                        [] turn.entry = "router" -> "http_500"
                                        [] turn.entry = "service" -> "error"]
    /\ UNCHANGED notTurn

NextTurn ==
    \/ \E entry \in Entries, message \in Messages : HandleMessage(entry, message)
    \/ CallReturns
    \/ \E is_spam \in BOOLEAN : SpamCheck(is_spam)
    \/ \E reply \in JudgeReplies : Classify(reply)
    \/ Execute
    \/ Deliver
    \/ CallRaises

InitTurn == InitTurnIdle /\ NoFanout /\ NoSearch /\ NoMerge /\ NoStageCall /\ NoCombine

SpecTurn == InitTurn /\ [][NextTurn]_vars

\* The turn when every awaited call ends: it returns or it raises.
FairTurn == SpecTurn /\ WF_vars(NextTurn)


\* ======================================================================
\* Part 6: InvestorSearchSystem._combine_results on its own
\* (ai_systems/search_investors.py), applied to the arguments of one call: the
\* results of the two pool queries, a list of fund employees, and the weights.
\* ======================================================================

MaxEmployees == 12   \* employees of one fund in the list of a call

\* the employees list of a call: rows naming their fund, of two funds
EmployeesOf(n1, n2) ==
    [i \in 1..n1 |-> [fund_name |-> "f1", name |-> i]]
    \o [i \in 1..n2 |-> [fund_name |-> "f2", name |-> 100 + i]]

\* the calls: what _search_angels and _search_funds return for a table, and the
\* weights of a stage
CombineCalls ==
    { [angels |-> system_search_angels(at, calculate_stage_weights(stage).angels),
       funds |-> system_search_funds(<<Fund("f1", {"saas"}, {"seed"}),
                                       Fund("f2", {"saas"}, {"seed"}),
                                       Fund("f3", {}, {"seed"})>>,
                                     calculate_stage_weights(stage).funds),
       employees |-> EmployeesOf(n1, n2),
       weights |-> calculate_stage_weights(stage)] :
         at \in {<<>>, <<Angel("a1", 70, {"saas"}, {"seed"})>>},
         stage \in {"", "seed", "growth"},
         n1 \in 0..MaxEmployees, n2 \in {0, 3, 6} }

InitCombineCall ==
    /\ combineCall \in CombineCalls
    /\ combineRet = [returned |-> FALSE, results |-> <<>>]

\* results = self._combine_results(angels_results, funds_results, employees_results, weights)
CombineResults ==
    /\ ~combineRet.returned
    /\ combineRet' = [returned |-> TRUE,
                      results |-> combine_results(combineCall.angels, combineCall.funds,
                                                  combineCall.employees, combineCall.weights)]
    /\ UNCHANGED <<combineCall, notCombine>>

NextCombine == CombineResults

InitCombine == InitCombineCall /\ NoFanout /\ NoSearch /\ NoMerge /\ NoStageCall /\ NoTurn

SpecCombine == InitCombine /\ [][NextCombine]_vars


\* ------------------------------------------------ claims on the fan-out
Subscribers(ac, c) == IF c \in DOMAIN ac THEN ac[c] ELSE {}

\* the events socket s received by way of `kind`, in the order received
Received(s, kind) == SelectSeq(delivered[s], LAMBDA e : e[1] = kind)

ReplayCount(ev) ==
    Cardinality({<<s, i>> \in Sockets \X (1..MaxPublish + 1) :
                    i <= Len(delivered[s]) /\ delivered[s][i] = <<"replay", ev>>})

Increasing(seq) == \A i, j \in 1..Len(seq) : i < j => seq[i][2] < seq[j][2]

\* C1 (as claimed): a subscriber that connects while events are queued is sent each
\* of them once, in publish order, and no queued event is replayed a second time,
\* to that subscriber or to any other.
C1_ReplayedOnce ==
    /\ \A ev \in 1..nextEv : ReplayCount(ev) <= 1
    /\ \A s \in Sockets : Increasing(Received(s, "replay"))

\* C2 (as claimed): a subscriber that receives two events of its conversation
\* receives them in the order in which they were passed to
\* broadcast_to_conversation (events are numbered in that order).
C2_PublishOrder ==
    \A s \in Sockets :
        Increasing(SelectSeq(delivered[s], LAMBDA e : e[1] \in {"live", "replay"}))

\* A broadcast returns in this step.
Returns(t) == bc[t].pc \in {"sending", "cleanup"} /\ bc'[t].pc = "idle"

\* the sockets the send loop has been through when the pending send is over
LoopVisited(b) == b.attempted \cup (IF b.pc = "sending" THEN {b.cur} ELSE {})

LoopFailed(b) == b.failed \cup (IF b.pc = "sending" /\ ~b.curOk THEN {b.cur} ELSE {})

\* C3: a broadcast in which a send failed never raises (it only ever returns), and
\* when it returns every socket whose send failed is out of the conversation's
\* subscriber set and has no metadata, and the send loop has been through every
\* socket that was subscribed when the broadcast started.
C3_DeadSubscriberRemoved ==
    /\ [](\A t \in Tasks : bc[t].pc \in {"idle", "sending", "cleanup"})
    /\ [][\A t \in Tasks :
            (Returns(t) /\ LoopFailed(bc[t]) # {}) =>
                /\ LoopVisited(bc[t]) = bc[t].connections
                /\ \A s \in LoopFailed(bc[t]) :
                      /\ s \notin Subscribers(active_connections', bc[t].conv)
                      /\ s \notin DOMAIN connection_metadata']_vars

\* C3 witness: a broadcast to two subscribers went through both, the send to one of
\* them failed, and that one has been removed.
C3_Witness ==
    \E t \in Tasks :
        /\ bc[t].pc = "cleanup"
        /\ Cardinality(bc[t].connections) = 2
        /\ bc[t].attempted = bc[t].connections
        /\ Len(bc[t].disconnected) = 1
        /\ bc[t].disconnected[1] \notin Subscribers(active_connections, bc[t].conv)
        /\ bc[t].disconnected[1] \notin DOMAIN connection_metadata

\* the most recent max_queue_size elements of q, oldest first
MostRecent(q) ==
    IF Len(q) <= max_queue_size THEN q
    ELSE [i \in 1..max_queue_size |-> q[i + Len(q) - max_queue_size]]

QueueOf(mq, c) == IF c \in DOMAIN mq THEN mq[c] ELSE <<>>

\* the effect on the queues of the publish made in this step, to conversation c
PublishEffect(c) ==
    IF Subscribers(active_connections, c) = {}
    THEN /\ message_queues' =
              Put(message_queues, c, MostRecent(Append(QueueOf(message_queues, c), nextEv')))
         /\ bc' = bc
    ELSE /\ message_queues' = message_queues
         /\ \E t \in Tasks : bc'[t].ev = nextEv' /\ bc'[t].conv = c

\* C4: every queue holds at most max_queue_size events, in publish order; an event
\* published to a conversation without subscribers is appended to its queue and,
\* over the bound, the oldest events are dropped; an event published to a
\* conversation with a subscriber is not queued.
C4_BoundedReplayQueue ==
    /\ [](\A c \in DOMAIN message_queues :
            /\ Len(message_queues[c]) <= max_queue_size
            /\ \A i \in 1..Len(message_queues[c]) - 1 :
                  message_queues[c][i] < message_queues[c][i + 1])
    /\ [][nextEv' # nextEv => \E c \in Convs : PublishEffect(c)]_vars

\* C4 witness: a queue is full and its oldest events have been dropped.
C4_Witness ==
    \E c \in DOMAIN message_queues :
        /\ Len(message_queues[c]) = max_queue_size
        /\ message_queues[c][1] > 1


\* ------------------------------------------------------- search properties
\* CanSearch as the specification states it: completeness of at least 50 with
\* stage and categories populated
Eligible(p) ==
    /\ Get(p, "completeness_score", 0) >= 50
    /\ Get(p, "stage", "") # ""
    /\ Get(p, "categories", <<>>) # <<>>

\* C5 (as claimed): can_search_investors answers allowed = false, with a reason
\* that is not empty, when completeness < 50 or the stage is empty or the
\* categories are empty, and allowed = true in every other case.
C5_CanSearchTruthTable ==
    gate.asked =>
        /\ gate.allowed = Eligible(project)
        /\ ~gate.allowed => gate.reason.text # ""

\* a pool query of the search in flight has been made or is about to be
InPoolQueries == srch.pc \in {"angels", "funds", "combine"}

\* C6 (as claimed): a search started by the /investors route or by a chat message
\* reaches the pool queries only for a profile that CanSearch allows.
C6_SearchGated ==
    (srch.entry \in {"router", "chat"} /\ InPoolQueries) => Eligible(project)

\* the score a result list is ranked by: final_score (InvestorSearchSystem) or
\* relevance_score (InvestorSearchEngine)
Blended(r) == IF "final_score" \in DOMAIN r THEN r.final_score ELSE r.relevance_score

Returned == srch.pc = "done" /\ "results" \in DOMAIN srch.response

RankedOrder(rs) ==
    \A i \in 1..Len(rs) - 1 :
        /\ Blended(rs[i]) >= Blended(rs[i + 1])
        /\ Blended(rs[i]) = Blended(rs[i + 1]) => rs[i].score >= rs[i + 1].score

PoolOf(r) == IF "type" \in DOMAIN r THEN r.type ELSE r.investor_type

\* C8 (as claimed): when exactly one pool's retrieval has failed, the search
\* returns instead of raising, and returns the results of the surviving pool.
C8_GracefulDegradation ==
    (srch.pc = "done" /\ srch.aFailed # srch.fFailed) =>
        /\ srch.raised = ""
        /\ "results" \in DOMAIN srch.response
        /\ LET survivors == IF srch.aFailed THEN srch.funds ELSE srch.angels
               pool == IF srch.aFailed THEN "fund" ELSE "angel"
               rs == srch.response.results
           IN  /\ \A i \in 1..Len(rs) : PoolOf(rs[i]) = pool
               /\ {survivors[i].name : i \in 1..Len(survivors)} =
                  {IF "name" \in DOMAIN rs[i] THEN rs[i].name ELSE rs[i].display_name :
                      i \in 1..Len(rs)}

\* the status a response carries
StatusOf(response) == Get(response, "status", "absent")

\* C9 (as claimed): a search in which a pool failed returns, without raising, a
\* response whose status is PartialFailure when one pool failed and TotalFailure
\* when both did, with an empty result list in the latter case.
C9_FailureStatus ==
    (srch.pc = "done" /\ (srch.aFailed \/ srch.fFailed)) =>
        /\ srch.raised = ""
        /\ StatusOf(srch.response) =
              (IF srch.aFailed /\ srch.fFailed THEN "TotalFailure" ELSE "PartialFailure")
        /\ (srch.aFailed /\ srch.fFailed) => srch.response.results = <<>>


\* ------------------------------------------------------- merger properties
\* the categories / founders a profile holds
CategoriesOf(p) == IF IsNone(p) THEN {} ELSE p.categories

FoundersOf(p) ==
    IF IsNone(p) THEN {} ELSE IF IsNone(p.team_info) THEN {} ELSE Range(p.team_info.founders)

LowerAll(S) == {Lower(x) : x \in S}

\* C10 (as claimed): after any sequence of merges, categories and founders hold
\* the union of all values the extractions supplied, one entry for values that
\* differ only in case.
C10_ListFieldsUnion ==
    /\ LowerAll(CategoriesOf(profile)) = LowerAll(hist.categories)
    /\ Cardinality(CategoriesOf(profile)) = Cardinality(LowerAll(hist.categories))
    /\ FoundersOf(profile) = hist.founders


\* ------------------------------------------------ claims on the merge, continued
\* the value a profile holds for a text field (None holds nothing)
FieldOf(p, f) == IF IsNone(p) THEN "" ELSE p[f]

\* C11: a merge sets each scalar field (stage, problem_solved, solution,
\* target_market, business_model) to the non-empty value the extraction supplies
\* for it and leaves the field as it was when the extraction supplies none, so
\* the field always holds the most recent non-empty extracted value.
C11_ScalarMostRecent ==
    [][\A f \in ScalarFields :
          FieldOf(profile', f) = IF f \in DOMAIN hist'.extracted
                                 THEN hist'.extracted[f]
                                 ELSE FieldOf(profile, f)]_vars


\* the nested records of a profile and the sub-fields each holds
NestedFields == {"metrics", "team_info", "funding_info"}

SubFields(n) ==
    CASE n = "metrics" -> DOMAIN NewProjectMetrics
      [] n = "team_info" -> DOMAIN NewTeamInfo
      [] n = "funding_info" -> DOMAIN NewFundingInfo

\* the value a profile holds for a sub-field (an absent record holds nothing)
SubOf(p, n, k) ==
    IF IsNone(p) THEN EmptyValue(k)
    ELSE IF IsNone(p[n]) THEN EmptyValue(k) ELSE p[n][k]

\* what an extraction supplies for a sub-field (nothing when it does not mention it)
SuppliedSub(extracted, n, k) == Get(Get(extracted, n, EmptyDict), k, EmptyValue(k))

\* C12: the nested records (metrics, team, funding) are merged field by field: a
\* sub-field the extraction does not mention, or for which it supplies an empty
\* value (empty string, empty list, null), keeps the value it had.
C12_NestedFieldwise ==
    [][\A n \in NestedFields : \A k \in SubFields(n) :
          SuppliedSub(hist'.extracted, n, k) = EmptyValue(k)
             => SubOf(profile', n, k) = SubOf(profile, n, k)]_vars


\* _calculate_completeness of the profile the caller holds (times three); a
\* caller that holds none has what ProjectData() holds
CompletenessOf(p) ==
    IF IsNone(p) THEN calculate_completeness(NewProjectData) ELSE calculate_completeness(p)

\* C13: merging a non-empty extraction never lowers the completeness of the
\* profile, so completeness never decreases along a sequence of merges.
C13_CompletenessMonotone ==
    [][~IsNone(hist'.extracted) => CompletenessOf(profile') >= CompletenessOf(profile)]_vars


\* the profile object as _merge_project_data(p, e) leaves it
Merged(p, e) == merge_project_data(p, e).data

\* C14: for the profile held and every extraction e, merging e a second time does
\* not change the completeness: completeness(Merge(Merge(p, e), e)) =
\* completeness(Merge(p, e)).
C14_CompletenessIdempotent ==
    \A e \in Extractions :
        calculate_completeness(Merged(Merged(profile, e), e))
            = calculate_completeness(Merged(profile, e))

\* merges have left a partly filled profile to which some extraction still adds
C14_Witness ==
    /\ hist.calls >= 2
    /\ CompletenessOf(profile) > 0
    /\ \E e \in Extractions :
          /\ Merged(profile, e) # profile
          /\ calculate_completeness(Merged(profile, e)) > CompletenessOf(profile)
          /\ Merged(Merged(profile, e), e) = Merged(profile, e)


\* C15: when the oracle's extraction step fails (the oracle raises or its output
\* is not parsable), process_conversation_update returns the profile with every
\* field as before the call and the completeness computed from that profile.
C15_OracleFailureNoOp ==
    [][hist'.op = "update" /\ ~hist'.parsed
          => /\ mergeOut'.project_data = profile
             /\ mergeOut'.completeness_score = CompletenessOf(profile)]_vars


\* C16: on every return path of process_conversation_update the completeness_score
\* returned is _calculate_completeness of the project_data returned, and when the
\* call reports failure the profile returned is field for field the profile
\* passed in (no partly applied merge is left behind).
C16_NoCompletenessDrift ==
    [][hist'.op = "update"
          => /\ mergeOut'.completeness_score = CompletenessOf(mergeOut'.project_data)
             /\ ~mergeOut'.success => mergeOut'.project_data = profile]_vars


\* ------------------------------------------------ claims on the stage weights
\* the band the stage strings of the calls belong to
StageBand(stage) ==
    CASE stage \in {"idea", "prototype", "mvp", "pre-seed"} -> "earliest"
      [] stage = "seed" -> "seed"
      [] stage \in {"Series A", "Series B", "series_a", "growth"} -> "growth"
      [] stage \in {"Series C", "pre-IPO"} -> "late"
      [] OTHER -> "unknown"

\* the (angels, funds) weights of a band, in tenths
BandWeights(band) ==
    CASE band = "earliest" -> [angels |-> 8, funds |-> 2]
      [] band = "seed" -> [angels |-> 6, funds |-> 4]
      [] band = "growth" -> [angels |-> 3, funds |-> 7]
      [] band = "late" -> [angels |-> 1, funds |-> 9]
      [] OTHER -> [angels |-> 5, funds |-> 5]

\* C17: _calculate_stage_weights gives the weights of the stage's band: (0.8, 0.2)
\* for idea/prototype/MVP/pre-seed, (0.6, 0.4) for seed, (0.3, 0.7) for series
\* A/B and growth, (0.1, 0.9) for series C and pre-IPO, and (0.5, 0.5) for every
\* unknown, empty or null stage.
C17_StageBanding ==
    stageRet.weights # Unset => stageRet.weights = BandWeights(StageBand(stageCall.stage))

\* a pair of non-negative weights that add up to one (ten tenths)
Normalised(w) == w.angels >= 0 /\ w.funds >= 0 /\ w.angels + w.funds = 10

\* C18: for every input (a stage name, the empty string, null, unrecognised
\* text) the stage-weight functions return a pair of non-negative weights whose
\* sum is one.
C18_WeightsNormalised ==
    /\ stageRet.weights # Unset => Normalised(stageRet.weights)
    /\ stageRet.distribution # Unset => Normalised(stageRet.distribution)

\* both functions have returned for a null stage and for unrecognised text
C18_Witness ==
    /\ stageCall.stage = Null
    /\ stageCall.stage_keywords = {"bridge", ""}
    /\ stageRet.weights # Unset
    /\ stageRet.distribution # Unset


\* ------------------------------------------------ claims on the chat turn
\* C19: when the oracle call fails or its output cannot be parsed,
\* analyze_user_intent returns the fixed default intent "general_conversation"
\* with confidence 0.5, whatever the user message says.
C19_ClassifierSafeDefault ==
    turn.judge \in {"raises", "unparsable"}
        => turn.decision = [decision |-> "general_conversation", confidence |-> 5]

\* the positions of a step among the steps the turn has run
At(step) == {i \in 1..Len(turn.steps) : turn.steps[i] = step}

\* C20: for every non-empty chat message the steps run in the order intent
\* classification, then (only for a search intent) search, then profile merge,
\* then delivery: the merge runs on every such turn, after the classification
\* and any search, and before the turn's reply is delivered.
C20_TurnPipelineOrder ==
    turn.message # "" =>
        /\ \A d \in At("deliver") : \E m \in At("merge") : \E c \in At("classify") :
              /\ c < m /\ m < d
              /\ \A x \in At("search") : c < x /\ x < m
        /\ At("search") # {} => turn.decision.decision \in {"search_investors", "search_companies"}


\* ------------------------------------------------ claims on the search, continued
\* the fields the reason of a refusal names
Mentions(reason, words) == words \in Range(reason.missing)

QueryCompleted(pool) ==
    CASE pool = "angels" -> srch.pc \in {"funds", "combine", "done"} /\ srch.impl # ""
      [] pool = "funds" -> srch.pc \in {"combine", "done"} /\ srch.impl # ""

QueryStarted(pool) == QueryCompleted(pool)

\* the combine step has run
MergeStarted == srch.pc = "done" /\ srch.raised = ""

\* C22: the two pool queries of a search are both started before either has
\* completed (neither is issued only after the other has returned), and the
\* merge step starts only after both have completed.
C22_ConcurrentPoolQueries ==
    /\ QueryCompleted("angels") => QueryStarted("funds")
    /\ QueryCompleted("funds") => QueryStarted("angels")
    /\ MergeStarted => QueryCompleted("angels") /\ QueryCompleted("funds")


\* the cap of the search that returned: 15 in _combine_results, the limit of the
\* call (15 unless the request gives one) in InvestorSearchEngine
CapOf == IF srch.impl = "system" THEN default_limit ELSE srch.req.limit

NameOf(r) == IF "name" \in DOMAIN r THEN r.name ELSE r.display_name

\* the blended score of a pool's result before the lists are combined
CandidateBlend(c, pool) ==
    IF srch.impl = "engine" THEN c.relevance_score
    ELSE IF pool = "angels" THEN c.score * srch.weights.angels
    ELSE base_score * srch.weights.funds

\* no candidate of the pool that was left out ranks above a returned result
NoneOutranks(cands, pool, rs) ==
    \A i \in 1..Len(cands) :
        cands[i].name \notin {NameOf(rs[j]) : j \in 1..Len(rs)}
            => \A j \in 1..Len(rs) : CandidateBlend(cands[i], pool) <= Blended(rs[j])

GroupShare(rec, fields, weight) ==
    (3 * weight * CountTruthy(rec, fields)) \div Cardinality(fields)

\* the share of a sub-record, which is nothing when the record is absent
RecordShare(rec, fields, weight) ==
    IF IsNone(rec) THEN 0 ELSE GroupShare(rec, fields, weight)

\* C24: _calculate_completeness is the sum over the five groups of (populated
\* expected sub-fields / expected sub-fields) x weight, with weights basic 40,
\* business 20, metrics 20, team 10 and funding 10; an absent sub-record gives 0
\* for its group, and a present funding record gives its group's weight in
\* proportion to its populated sub-fields; the value lies in 0..100.
C24_CompletenessFormula ==
    ~IsNone(profile) =>
        /\ calculate_completeness(profile) =
              GroupShare(profile, {"categories", "stage", "problem_solved", "solution"}, 40)
              + GroupShare(profile, {"target_market", "business_model"}, 20)
              + RecordShare(profile.metrics, {"revenue", "users", "growth_rate"}, 20)
              + RecordShare(profile.team_info, {"size", "founders"}, 10)
              + RecordShare(profile.funding_info, DOMAIN NewFundingInfo, 10)
        /\ calculate_completeness(profile) \in 0..300


\* ------------------------------------------------- claims on the blended score
\* the pool-intrinsic score of a result, in tenths: angel_score, the fund score
\* of _combine_results, or the score (times ten) a fund of the engine carries
IntrinsicTenths(r) ==
    IF "investor_type" \in DOMAIN r /\ r.investor_type = "fund" THEN r.score
    ELSE 10 * r.score

\* the weight (in tenths) the search in flight gave to the pool of a result
PoolWeight(r) == IF PoolOf(r) = "angel" THEN srch.weights.angels ELSE srch.weights.funds

\* C25: for every record of a returned result list, the blended score the list
\* is ranked by is the record's pool-intrinsic score times the weight of the
\* record's pool (angels weight for angels, funds weight for funds), the
\* weights being those computed for this query's stage.
C25_BlendedScore ==
    Returned =>
        \A j \in 1..Len(srch.response.results) :
            LET r == srch.response.results[j]
            IN  10 * Blended(r) = IntrinsicTenths(r) * PoolWeight(r)


\* -------------------------------------------------- claims on the fund score
\* the employees of the call that name the fund of a result
EmployeesNaming(r) ==
    SelectSeq(combineCall.employees, LAMBDA emp : emp.fund_name = r.name)

\* C26: the score of a fund result is the base score plus a bonus proportional
\* to the number of employees of that fund, the bonus applied never being more
\* than the base score, so that the score lies between the base score and twice
\* the base score and within 0..100; at most 5 employees (the first of the
\* fund's) are attached to a fund result.
C26_FundBonusCap ==
    combineRet.returned =>
        \A j \in 1..Len(combineRet.results) :
            LET r == combineRet.results[j]
                n == Len(EmployeesNaming(r))
            IN  r.type = "fund" =>
                    /\ r.score = base_score + Min(employee_bonus_each * n, base_score)
                    /\ r.score - base_score <= base_score
                    /\ r.score \in base_score..(2 * base_score)
                    /\ r.score \in 0..100
                    /\ Len(r.employees) <= 5
                    /\ r.employees = Take(EmployeesNaming(r), 5)

\* a call has returned a fund whose employees earn more than the cap and of
\* whom five are attached, and a fund whose bonus is below the cap
C26_Witness ==
    /\ combineRet.returned
    /\ \E j, k \in 1..Len(combineRet.results) :
          LET r == combineRet.results[j]
              q == combineRet.results[k]
          IN  /\ r.type = "fund" /\ q.type = "fund"
              /\ Len(EmployeesNaming(r)) * employee_bonus_each > base_score
              /\ r.score = 2 * base_score
              /\ Len(r.employees) = 5
              /\ Len(EmployeesNaming(q)) = 3
              /\ q.score = base_score + 3 * employee_bonus_each


\* ------------------------------------------- claims on the fan-out, continued
\* a send of the event to some socket has succeeded
SentToSomeone(ev) ==
    \E s \in Sockets : \E i \in 1..Len(delivered[s]) :
        delivered[s][i] \in {<<"live", ev>>, <<"replay", ev>>}

\* the event is held in a replay queue
HeldInQueue(ev) == \E c \in DOMAIN message_queues : ev \in Range(message_queues[c])

\* broadcast_to_conversation has returned for the event
Published(ev) == ev \in 1..nextEv /\ \A t \in Tasks : bc[t].pc = "idle" \/ bc[t].ev # ev

\* C27: every event passed to broadcast_to_conversation has, once the call has
\* returned, been sent successfully to at least one subscriber or is held in
\* the replay queue (no queue reaches its capacity here, so none is evicted):
\* an event whose send failed for every subscriber, or whose replay send
\* failed, is still there for a later subscriber.
C27_NoSilentLoss ==
    \A ev \in 1..nextEv : Published(ev) => SentToSomeone(ev) \/ HeldInQueue(ev)


\* C28: what a newly connected subscriber is sent starts with the replayed
\* events: no event published after it connected, and no
\* connection_established, is sent to it before a replayed event, whatever a
\* concurrent broadcast does during the suspensions of the replay's sends.
C28_ReplayBeforeLive ==
    \A s \in Sockets :
        \A i, j \in 1..Len(delivered[s]) :
            (i < j /\ delivered[s][j][1] = "replay") => delivered[s][i][1] = "replay"


\* the sockets of the subscriber sets
Subscribed == UNION {active_connections[c] : c \in DOMAIN active_connections}

\* the bookkeeping of the manager is consistent
Bookkeeping ==
    /\ \A c \in DOMAIN active_connections : active_connections[c] # {}
    /\ DOMAIN connection_metadata = Subscribed
    /\ \A s \in DOMAIN connection_metadata :
          /\ connection_metadata[s] \in DOMAIN active_connections
          /\ s \in active_connections[connection_metadata[s]]
          /\ \A c \in DOMAIN active_connections :
                s \in active_connections[c] => c = connection_metadata[s]

\* a step in which disconnect() is called for socket s: by the except branch of
\* connect, by the endpoint, by the clean-up of a broadcast or by disconnect_all
DisconnectCalled(s) ==
    \/ sock[s].pc = "accepting" /\ sock'[s].pc = "failed"
    \/ sock[s].pc \in {"open", "failed"} /\ sock'[s].pc = "closed"
    \/ \E t \in Tasks :
          /\ bc'[t].pc = "cleanup"
          /\ bc'[t].k # bc[t].k
          /\ bc'[t].disconnected[bc'[t].k] = s
    \/ shut'.pc = "closing" /\ shut' # shut /\ wsUp' # wsUp /\ ~wsUp'[s] /\ wsUp[s]

\* C29: in every state reached by connect, disconnect, disconnect_all and
\* broadcast (failed accepts and failed sends among them) no conversation of
\* active_connections has an empty set, the sockets with a connection_metadata
\* entry are the sockets of the sets, each entry names the conversation whose
\* set holds the socket, and a disconnect of a socket that is already removed
\* changes neither dictionary.
C29_SubscriberBookkeeping ==
    /\ []Bookkeeping
    /\ [][\A s \in Sockets :
            (DisconnectCalled(s) /\ s \notin Subscribed) =>
                /\ active_connections' = active_connections
                /\ connection_metadata' = connection_metadata]_vars

\* C29 witness: disconnect_all is at work with one socket still subscribed, and
\* the other socket, removed before, has been disconnected again by its endpoint
C29_Witness ==
    \E s, u \in Sockets :
        /\ shut.pc = "closing"
        /\ sock[s].pc = "closed"
        /\ s \notin Subscribed
        /\ u \in Subscribed
        /\ connection_metadata[u] \in DOMAIN active_connections


\* ------------------------------------------- claims on the turn, continued
\* the events the turn has published: ai_typing, ai_response (send_ai_response)
\* and error (send_error_message)
EventsOf(t) ==
    SelectSeq(t.steps, LAMBDA step : step \in {"typing", "deliver", "send_error"})

\* the AI steps the turn has run
AIStepsOf(t) ==
    SelectSeq(t.steps, LAMBDA step : step \in {"spam", "language", "classify", "respond", "merge"})

\* _handle_chat_message has returned to handle_message
Handled == turn.entry = "websocket" /\ turn.pc = 0

\* the typing indicator is out and nothing has followed it yet
Typing == turn.entry = "websocket" /\ EventsOf(turn) = <<"typing">>

\* C30: a chat_message over the WebSocket whose content is empty after trimming
\* publishes exactly one error event, no ai_typing, and runs no AI step; one with
\* content publishes one ai_typing and, on every path (spam, normal reply, an AI
\* step that fails), that ai_typing is eventually followed by exactly one
\* ai_response or error event; the handler always returns with one of these
\* replies and never raises.
C30_TypingResolved ==
    /\ [](turn.entry = "websocket" =>
            IF Strip(turn.message) = ""
            THEN Handled /\ EventsOf(turn) = <<"send_error">> /\ AIStepsOf(turn) = <<>>
            ELSE /\ EventsOf(turn) \in {<<>>, <<"typing">>, <<"typing", "deliver">>}
                 /\ Handled <=> EventsOf(turn) = <<"typing", "deliver">>
                 /\ Handled => turn.reply \in {"anti_spam", "ai_response", "fallback"})
    /\ (Typing ~> (Handled /\ Len(EventsOf(turn)) = 2))

\* C30 witness: a websocket turn whose language detection raised after the
\* typing indicator has ended with the fallback response
C30_Witness ==
    /\ Handled
    /\ turn.message = "hola"
    /\ turn.steps = <<"typing", "spam", "deliver">>
    /\ turn.reply = "fallback"

====
